---- MODULE Spec2Model ----
(***************************************************************************)
(* Model of the strength-decision engine of src/app.py:                    *)
(*   extract_features (lines 46-63), predict_strength (lines 66-122) and   *)
(*   load_model (lines 125-141).                                           *)
(*                                                                         *)
(* A password is a sequence of Unicode code points.  The str predicates    *)
(* the code uses (isupper, islower, isdigit, isalnum, lower) are given on  *)
(* the modelled alphabet with the values CPython 3 gives them.             *)
(***************************************************************************)
EXTENDS Integers, Sequences, FiniteSets, TLC

(***************************************************************************)
(* Bounds of the explored inputs.                                          *)
(***************************************************************************)
MaxUpperPad == 1
MaxLowerPad == 0
MaxDigitPad == 2
MaxSpecialPad == 1
MaxExtraPad == 1
MaxRows == 2

(***************************************************************************)
(* Character classification, as str.isupper / islower / isdigit / isalnum  *)
(* classify one character.  Non-ASCII members of the alphabet:             *)
(*   201 E-acute (Lu)            233 e-acute (Ll)                          *)
(*   178 superscript two (No, isdigit, not decimal)                        *)
(*   189 vulgar fraction one half (No, numeric only)                       *)
(*   453 Dz-caron titlecase digraph (Lt, cased neither upper nor lower)    *)
(*   1633 Arabic-Indic digit one (Nd)                                      *)
(*   9398 circled Latin capital A (So with Other_Uppercase)                *)
(*   23494 a CJK ideograph (Lo, letter with no case)                       *)
(***************************************************************************)
AsciiUpper == 65..90
AsciiLower == 97..122
AsciiDigit == 48..57

isupper(c) == c \in AsciiUpper \/ c \in {201, 9398}

islower(c) == c \in AsciiLower \/ c \in {233}

isdigit(c) == c \in AsciiDigit \/ c \in {178, 1633}

isalnum(c) ==
    \/ c \in AsciiUpper \/ c \in AsciiLower \/ c \in AsciiDigit
    \/ c \in {178, 189, 201, 233, 453, 1633, 23494}

\* str.lower() on one character of the alphabet
lowerChar(c) ==
    IF c \in AsciiUpper THEN c + 32
    ELSE IF c = 201 THEN 233
    ELSE IF c = 453 THEN 454
    ELSE IF c = 9398 THEN 9424
    ELSE c

\* str.lower() on a string
lower(s) == [i \in 1..Len(s) |-> lowerChar(s[i])]

\* sum(1 for c in password if c.isupper())
CountUpper(s) == Cardinality({i \in 1..Len(s) : isupper(s[i])})

\* sum(1 for c in password if c.islower())
CountLower(s) == Cardinality({i \in 1..Len(s) : islower(s[i])})

\* sum(1 for c in password if c.isdigit())
CountDigits(s) == Cardinality({i \in 1..Len(s) : isdigit(s[i])})

\* sum(1 for c in password if not c.isalnum())
CountSpecial(s) == Cardinality({i \in 1..Len(s) : ~isalnum(s[i])})

\* variant: the length itself as denominator, without the max(1, .) guard
SafeLen_Unguarded(n) == n

\* max(1, n), the denominator of the four ratios
SafeLen(n) == IF n > 1 THEN n ELSE 1

\* x / y of Python, kept exact as numerator over denominator
Ratio(x, y) == [num |-> x, den |-> y]

\* needle occurs in hay (re.search of a literal alternative)
Contains(hay, needle) ==
    \E i \in 0..(Len(hay) - Len(needle)) :
        \A j \in 1..Len(needle) : hay[i + j] = needle[j]

\* the alternatives of r'123|password|qwerty|abc'
weak_patterns ==
    { <<49, 50, 51>>,
      <<112, 97, 115, 115, 119, 111, 114, 100>>,
      <<113, 119, 101, 114, 116, 121>>,
      <<97, 98, 99>> }

common_pattern(s) ==
    IF \E p \in weak_patterns : Contains(lower(s), p) THEN 1 ELSE 0

extract_features(password) ==
    LET length  == Len(password)
        upper   == CountUpper(password)
        lowerN  == CountLower(password)
        digits  == CountDigits(password)
        special == CountSpecial(password)
    IN  [ length         |-> length,
          upper          |-> upper,
          lower          |-> lowerN,
          digits         |-> digits,
          special        |-> special,
          digit_ratio    |-> Ratio(digits, SafeLen(length)),
          special_ratio  |-> Ratio(special, SafeLen(length)),
          upper_ratio    |-> Ratio(upper, SafeLen(length)),
          lower_ratio    |-> Ratio(lowerN, SafeLen(length)),
          common_pattern |-> common_pattern(password) ]


(***************************************************************************)
(* predict_strength                                                        *)
(***************************************************************************)
\* the value None of an absent model or scaler
None == "None"

\* RULE 1 threshold: if f['length'] < 6
MinLength == 6

\* variant: the list without its entry abc123
common_weak_NoAbc123 ==
    { <<112, 97, 115, 115, 119, 111, 114, 100>>,
      <<49, 50, 51, 52, 53>>,
      <<113, 119, 101, 114, 116, 121>>,
      <<49, 50, 51, 52, 53, 54>>,
      <<49, 50, 51, 52, 53, 54, 55, 56>>,
      <<49, 50, 51, 52, 53, 54, 55, 56, 57>> }

\* RULE 2 list: common_weak
common_weak ==
    { <<112, 97, 115, 115, 119, 111, 114, 100>>,       \* password
      <<49, 50, 51, 52, 53>>,                          \* 12345
      <<113, 119, 101, 114, 116, 121>>,                \* qwerty
      <<97, 98, 99, 49, 50, 51>>,                      \* abc123
      <<49, 50, 51, 52, 53, 54>>,                      \* 123456
      <<49, 50, 51, 52, 53, 54, 55, 56>>,              \* 12345678
      <<49, 50, 51, 52, 53, 54, 55, 56, 57>> }         \* 123456789

\* variant: medium asks for an uppercase letter and a special character
RuleFallback_Both(f) ==
    IF f.length >= 12 /\ f.digits >= 2 /\ f.special >= 1
       /\ f.upper >= 1 /\ f.lower >= 1
    THEN "strong"
    ELSE IF f.length >= 8 /\ f.digits >= 1
            /\ (f.upper >= 1 /\ f.special >= 1)
    THEN "medium"
    ELSE "weak"

\* the rule-based branch taken when model is None or scaler is None
RuleFallback(f) ==
    IF f.length >= 12 /\ f.digits >= 2 /\ f.special >= 1
       /\ f.upper >= 1 /\ f.lower >= 1
    THEN "strong"
    ELSE IF f.length >= 8 /\ f.digits >= 1
            /\ (f.upper >= 1 \/ f.special >= 1)
    THEN "medium"
    ELSE "weak"

\* RULE 3 condition, placed after the mapping of the prediction
StrongOverride(f) ==
    f.length >= 12 /\ f.digits >= 2
    /\ f.special >= 1 /\ f.upper >= 1 /\ f.lower >= 1

\* decimal digits of a natural number, as str() prints an integer
RECURSIVE DecStr(_)
DecStr(n) == IF n < 10 THEN <<48 + n>> ELSE DecStr(n \div 10) \o <<48 + (n % 10)>>

\* str(pred): a string prediction is itself, an integer class prints its
\* digits, a score (kept in tenths) prints as <int>.<tenth>
str(raw) ==
    IF raw.kind = "str" THEN raw.text
    ELSE IF raw.kind = "int" THEN DecStr(raw.num)
    ELSE DecStr(raw.num \div 10) \o <<46>> \o DecStr(raw.num % 10)

\* the four label strings of the final return, each with the label it is
LabelOf ==
    ( <<118, 101, 114, 121, 95, 119, 101, 97, 107>> :> "very_weak" )
    @@ ( <<119, 101, 97, 107>> :> "weak" )
    @@ ( <<109, 101, 100, 105, 117, 109>> :> "medium" )
    @@ ( <<115, 116, 114, 111, 110, 103>> :> "strong" )

\* variant: an unrecognised prediction is not replaced by the default
MapPrediction_NoDefault(pred, f) ==
    IF pred \in { <<118, 101, 114, 121, 95, 119, 101, 97, 107>>,
                  <<118, 101, 114, 121, 32, 119, 101, 97, 107>> }
    THEN "very_weak"
    ELSE IF pred \in { <<119, 101, 97, 107>>, <<119, 101, 97, 107>> }
    THEN "weak"
    ELSE IF pred \in { <<109, 101, 100, 105, 117, 109>>,
                       <<109, 111, 100, 101, 114, 97, 116, 101>> }
    THEN "medium"
    ELSE IF pred \in { <<115, 116, 114, 111, 110, 103>>,
                       <<103, 111, 111, 100>> }
    THEN "strong"
    ELSE IF StrongOverride(f)
    THEN "strong"
    ELSE "unknown"

\* the mapping of the lowercased prediction to a label, RULE 3 and the
\* final default
MapPrediction(pred, f) ==
    IF pred \in { <<118, 101, 114, 121, 95, 119, 101, 97, 107>>,
                  <<118, 101, 114, 121, 32, 119, 101, 97, 107>> }
    THEN "very_weak"
    ELSE IF pred \in { <<119, 101, 97, 107>>, <<119, 101, 97, 107>> }
    THEN "weak"
    ELSE IF pred \in { <<109, 101, 100, 105, 117, 109>>,
                       <<109, 111, 100, 101, 114, 97, 116, 101>> }
    THEN "medium"
    ELSE IF pred \in { <<115, 116, 114, 111, 110, 103>>,
                       <<103, 111, 111, 100>> }
    THEN "strong"
    ELSE IF StrongOverride(f)
    THEN "strong"
    ELSE IF pred \in DOMAIN LabelOf
    THEN LabelOf[pred]
    ELSE "weak"

\* what one call returns and how often it invoked each collaborator
Return(label, nTransform, nPredict) ==
    [label |-> label, scalerCalls |-> nTransform, modelCalls |-> nPredict]

\* variant: RULE 1 is only applied on the rule-based branch, so a loaded
\* model is consulted for short passwords
predict_strength_LengthRuleLate(password, model, scaler, env) ==
    IF password = <<>>
    THEN Return("very_weak", 0, 0)
    ELSE LET f == extract_features(password)
             pw_lower == lower(password)
         IN  IF pw_lower \in common_weak
             THEN Return("very_weak", 0, 0)
             ELSE IF model = None \/ scaler = None
             THEN IF f.length < MinLength
                  THEN Return("very_weak", 0, 0)
                  ELSE Return(RuleFallback(f), 0, 0)
             ELSE IF env.transform = "raise"
             THEN Return("unknown", 1, 0)
             ELSE IF env.predict = "raise"
             THEN Return("unknown", 1, 1)
             ELSE Return(MapPrediction(lower(str(env.raw)), f), 1, 1)

\* env is what the collaborators do when invoked in this call:
\* env.transform and env.predict are "ok" or "raise", env.raw is what
\* model.predict(scaled)[0] holds
predict_strength(password, model, scaler, env) ==
    IF password = <<>>
    THEN Return("very_weak", 0, 0)
    ELSE LET f == extract_features(password)
             pw_lower == lower(password)
         IN  IF f.length < MinLength
             THEN Return("very_weak", 0, 0)
             ELSE IF pw_lower \in common_weak
             THEN Return("very_weak", 0, 0)
             ELSE IF model = None \/ scaler = None
             THEN Return(RuleFallback(f), 0, 0)
             ELSE IF env.transform = "raise"
             THEN Return("unknown", 1, 0)
             ELSE IF env.predict = "raise"
             THEN Return("unknown", 1, 1)
             ELSE Return(MapPrediction(lower(str(env.raw)), f), 1, 1)

(***************************************************************************)
(* load_model                                                              *)
(***************************************************************************)
\* variant: a model that loaded is kept when the scaler fails to load
load_model_KeepsModel(modelFile, scalerFile) ==
    IF modelFile = "ok" /\ scalerFile = "ok"
    THEN [model |-> "LogisticRegression", scaler |-> "StandardScaler",
          notice |-> "success"]
    ELSE IF modelFile = "ok"
    THEN [model |-> "LogisticRegression", scaler |-> None,
          notice |-> IF scalerFile = "missing" THEN "warning" ELSE "error"]
    ELSE [model |-> None, scaler |-> None,
          notice |-> IF modelFile = "missing" THEN "warning" ELSE "error"]

\* joblib.load of a file that is "ok", "missing" (FileNotFoundError) or
\* "corrupt" (any other exception); the model file is read first
load_model(modelFile, scalerFile) ==
    IF modelFile = "ok" /\ scalerFile = "ok"
    THEN [model |-> "LogisticRegression", scaler |-> "StandardScaler",
          notice |-> "success"]
    ELSE IF modelFile = "missing" \/ (modelFile = "ok" /\ scalerFile = "missing")
    THEN [model |-> None, scaler |-> None, notice |-> "warning"]
    ELSE [model |-> None, scaler |-> None, notice |-> "error"]


(***************************************************************************)
(* Inputs                                                                  *)
(***************************************************************************)
Rep(c, n) == [i \in 1..n |-> c]

\* words the passwords are built on
Bases ==
    { << >>,
      <<97, 98, 49>>,                                            \* ab1
      <<97, 100, 109, 105, 110>>,                                \* admin
      <<49, 50, 51, 52, 53>>,                                    \* 12345
      <<112, 97, 115, 115, 119, 111, 114, 100>>,                 \* password
      <<80, 65, 83, 83, 87, 79, 82, 68>>,                        \* PASSWORD
      <<113, 119, 101, 114, 116, 121>>,                          \* qwerty
      <<119, 101, 108, 99, 111, 109, 101>>,                      \* welcome
      <<87, 69, 76, 67, 79, 77, 69>>,                            \* WELCOME
      <<108, 101, 116, 109, 101, 105, 110>>,                     \* letmein
      <<97, 98, 99, 100, 69, 70, 71, 72>>,                       \* abcdEFGH
      <<99, 111, 114, 114, 101, 99, 116, 104, 111, 114, 115, 101>>,  \* correcthorse
      <<84, 114, 48, 117, 98, 52, 100, 111, 114, 38, 51, 120, 121, 122>>  \* Tr0ub4dor&3xyz
    }

\* characters outside the four ASCII classes, appended to a base
ExtraChars == {32, 178, 189, 201, 233, 453, 1633, 9398, 23494}

\* base, then Q.., z.., 7.., !.., then extra characters
Passwords ==
    { b \o Rep(81, u) \o Rep(122, l) \o Rep(55, d) \o Rep(33, s) \o Rep(x, e) :
        b \in Bases, u \in 0..MaxUpperPad, l \in 0..MaxLowerPad,
        d \in 0..MaxDigitPad, s \in 0..MaxSpecialPad,
        x \in ExtraChars, e \in 0..MaxExtraPad }

StrPred(t) == [kind |-> "str", num |-> 0, text |-> t]
IntPred(n) == [kind |-> "int", num |-> n, text |-> << >>]
ScorePred(tenths) == [kind |-> "score", num |-> tenths, text |-> << >>]

\* values model.predict(scaled)[0] may hold
RawPredictions ==
    { StrPred(<<118, 101, 114, 121, 95, 119, 101, 97, 107>>),       \* very_weak
      StrPred(<<86, 69, 82, 89, 32, 87, 69, 65, 75>>),              \* VERY WEAK
      StrPred(<<87, 101, 97, 107>>),                                \* Weak
      StrPred(<<109, 101, 100, 105, 117, 109>>),                    \* medium
      StrPred(<<77, 111, 100, 101, 114, 97, 116, 101>>),            \* Moderate
      StrPred(<<115, 116, 114, 111, 110, 103>>),                    \* strong
      StrPred(<<71, 79, 79, 68>>),                                  \* GOOD
      StrPred(<<101, 120, 99, 101, 108, 108, 101, 110, 116>>),      \* excellent
      IntPred(1), IntPred(10), ScorePred(5) }

NoRaw == StrPred(<< >>)

\* what the scaler and the model do in one call
Envs ==
    { [transform |-> "raise", predict |-> "ok", raw |-> NoRaw],
      [transform |-> "ok", predict |-> "raise", raw |-> NoRaw] }
    \cup { [transform |-> "ok", predict |-> "ok", raw |-> r] : r \in RawPredictions }

\* no collaborator was invoked
NoEnv == [transform |-> "unused", predict |-> "unused", raw |-> NoRaw]

FileStates == {"ok", "missing", "corrupt"}

NoFeatures == extract_features(<< >>)

\* rows of the uploaded files that have more than one row
BatchRows ==
    { << >>,                                                     \* a blank line
      <<97, 98, 49>>,                                            \* ab1
      <<119, 101, 108, 99, 111, 109, 101, 81, 55>>,              \* welcomeQ7
      <<84, 114, 48, 117, 98, 52, 100, 111, 114, 38, 51, 120, 121, 122>> }

\* the entries of common_weak and the words admin, welcome, letmein, typed
\* in lower, upper and mixed case
CasedWords ==
    { <<112, 97, 115, 115, 119, 111, 114, 100>>,    \* password
      <<80, 65, 83, 83, 87, 79, 82, 68>>,    \* PASSWORD
      <<80, 97, 115, 115, 87, 111, 114, 100>>,    \* PassWord
      <<49, 50, 51, 52, 53>>,    \* 12345
      <<113, 119, 101, 114, 116, 121>>,    \* qwerty
      <<81, 87, 69, 82, 84, 89>>,    \* QWERTY
      <<81, 119, 69, 114, 84, 121>>,    \* QwErTy
      <<97, 98, 99, 49, 50, 51>>,    \* abc123
      <<65, 66, 67, 49, 50, 51>>,    \* ABC123
      <<65, 98, 67, 49, 50, 51>>,    \* AbC123
      <<97, 100, 109, 105, 110>>,    \* admin
      <<65, 68, 77, 73, 78>>,    \* ADMIN
      <<65, 100, 109, 105, 110>>,    \* Admin
      <<49, 50, 51, 52, 53, 54>>,    \* 123456
      <<49, 50, 51, 52, 53, 54, 55, 56>>,    \* 12345678
      <<49, 50, 51, 52, 53, 54, 55, 56, 57>>,    \* 123456789
      <<119, 101, 108, 99, 111, 109, 101>>,    \* welcome
      <<87, 69, 76, 67, 79, 77, 69>>,    \* WELCOME
      <<87, 101, 108, 99, 111, 109, 101>>,    \* Welcome
      <<108, 101, 116, 109, 101, 105, 110>>,    \* letmein
      <<76, 69, 84, 77, 69, 73, 78>>,    \* LETMEIN
      <<76, 101, 116, 77, 101, 73, 110>> }    \* LetMeIn

\* what the user supplies: the text typed into the single-password page, or
\* the rows of the password column of an uploaded file
Inputs ==
    { <<p>> : p \in Passwords \cup CasedWords }
    \cup UNION { [1..n -> BatchRows] : n \in 2..MaxRows }

\* value_counts() of the results, a label that does not occur having 0
ValueCounts(labels) ==
    [l \in {"very_weak", "weak", "medium", "strong", "unknown"} |->
        Cardinality({i \in 1..Len(labels) : labels[i] = l})]

\* the labels value_counts() may list last: it lists by descending count
\* and leaves the order of equal counts to the sort
LastCounted(counts) ==
    { l \in DOMAIN counts :
        /\ counts[l] > 0
        /\ \A k \in DOMAIN counts : counts[k] > 0 => counts[l] <= counts[k] }

(***************************************************************************)
(* State                                                                   *)
(***************************************************************************)
VARIABLES
    pc,           \* "start", "ready", "predicted", "done", "summarised"
    app_mode,     \* the page that made the calls, "none" before the first
    input,        \* the text typed (one string) or the rows of the file
    row,          \* rows of the file whose call has been made
    password,     \* argument of the last call: password, or pw_str
    modelFile,    \* what joblib.load found of password_model_vw.pkl
    scalerFile,   \* what joblib.load found of password_scaler_vw.pkl
    model,        \* module-level model
    scaler,       \* module-level scaler
    notice,       \* sidebar message of load_model
    result,       \* module-level strength
    env,          \* what the collaborators did in the last call
    scalerCalls,  \* scaler.transform invocations in the last call
    modelCalls,   \* model.predict invocations in the last call
    features,     \* module-level features
    results,      \* the list results of the batch page
    features_list,    \* the list features_list of the batch page
    strength_counts   \* strength_counts of the batch page

vars == <<pc, app_mode, input, row, password, modelFile, scalerFile, model,
          scaler, notice, result, env, scalerCalls, modelCalls, features,
          results, features_list, strength_counts>>

Init ==
    /\ pc = "start"
    /\ app_mode = "none"
    /\ input \in Inputs
    /\ row = 0
    /\ password = << >>
    /\ modelFile = "unread"
    /\ scalerFile = "unread"
    /\ model = None
    /\ scaler = None
    /\ notice = "none"
    /\ result = "none"
    /\ env = NoEnv
    /\ scalerCalls = 0
    /\ modelCalls = 0
    /\ features = NoFeatures
    /\ results = << >>
    /\ features_list = << >>
    /\ strength_counts = ValueCounts(<< >>)

\* model, scaler = load_model()
LoadModel ==
    /\ pc = "start"
    /\ \E mf \in FileStates, sf \in FileStates :
         LET r == load_model(mf, sf)
         IN  /\ modelFile' = mf
             /\ scalerFile' = sf
             /\ model' = r.model
             /\ scaler' = r.scaler
             /\ notice' = r.notice
    /\ pc' = "ready"
    /\ UNCHANGED <<app_mode, input, row, password, result, env, scalerCalls,
                   modelCalls, features, results, features_list,
                   strength_counts>>

\* the call strength = predict_strength(pw, model, scaler) made from the
\* page mode; the scaler and the model behave as some e of Envs
CallPredictStrength(mode, pw) ==
    /\ app_mode' = mode
    /\ password' = pw
    /\ \E e \in Envs :
         LET r == predict_strength(pw, model, scaler, e)
         IN  /\ result' = r.label
             /\ scalerCalls' = r.scalerCalls
             /\ modelCalls' = r.modelCalls
             /\ env' = IF r.scalerCalls = 0 THEN NoEnv
                       ELSE IF r.modelCalls = 0
                       THEN [e EXCEPT !.predict = "unused"]
                       ELSE e
    /\ pc' = "predicted"
    /\ UNCHANGED <<input, modelFile, scalerFile, model, scaler, notice,
                   features, results, features_list, strength_counts>>

\* Single Password Check: if password: strength = predict_strength(...)
PredictStrength ==
    /\ pc = "ready"
    /\ Len(input) = 1
    /\ input[1] # << >>
    /\ CallPredictStrength("Single Password Check", input[1])
    /\ UNCHANGED row

\* Single Password Check: features = extract_features(password)
ExtractFeatures ==
    /\ pc = "predicted"
    /\ app_mode = "Single Password Check"
    /\ features' = extract_features(password)
    /\ pc' = "done"
    /\ UNCHANGED <<app_mode, input, row, password, modelFile, scalerFile,
                   model, scaler, notice, result, env, scalerCalls,
                   modelCalls, results, features_list, strength_counts>>

\* Batch Analysis, the head of one pass of the loop over the rows:
\* pw_str = str(pw); strength = predict_strength(pw_str, model, scaler)
PredictStrengthBatch ==
    /\ \/ pc = "ready"
       \/ pc = "done" /\ app_mode = "Batch Analysis"
    /\ row < Len(input)
    /\ row' = row + 1
    /\ CallPredictStrength("Batch Analysis", input[row + 1])

\* Batch Analysis, the rest of the pass: features = extract_features(pw_str);
\* results.append(strength); features_list.append(features)
ExtractFeaturesBatch ==
    /\ pc = "predicted"
    /\ app_mode = "Batch Analysis"
    /\ features' = extract_features(password)
    /\ results' = Append(results, result)
    /\ features_list' = Append(features_list, features')
    /\ pc' = "done"
    /\ UNCHANGED <<app_mode, input, row, password, modelFile, scalerFile,
                   model, scaler, notice, result, env, scalerCalls,
                   modelCalls, strength_counts>>

\* Batch Analysis after the loop: strength_counts = ...value_counts(), and
\* for strength, count in strength_counts.items() leaves in strength the
\* label listed last
Summarise ==
    /\ pc = "done"
    /\ app_mode = "Batch Analysis"
    /\ row = Len(input)
    /\ strength_counts' = ValueCounts(results)
    /\ result' \in LastCounted(strength_counts')
    /\ pc' = "summarised"
    /\ UNCHANGED <<app_mode, input, row, password, modelFile, scalerFile,
                   model, scaler, notice, env, scalerCalls, modelCalls,
                   features, results, features_list>>

Next ==
    \/ LoadModel
    \/ PredictStrength
    \/ ExtractFeatures
    \/ PredictStrengthBatch
    \/ ExtractFeaturesBatch
    \/ Summarise

Spec == Init /\ [][Next]_vars

\* the keys of strength_labels
strength_labels == {"very_weak", "weak", "medium", "strong", "unknown"}

TypeOK ==
    /\ pc \in {"start", "ready", "predicted", "done", "summarised"}
    /\ app_mode \in {"none", "Single Password Check", "Batch Analysis"}
    /\ result \in {"none"} \cup strength_labels
    /\ scalerCalls \in 0..1
    /\ modelCalls \in 0..1
    /\ row \in 0..Len(input)
    /\ (pc = "start") = (notice = "none")
    /\ (pc \in {"start", "ready"}) = (app_mode = "none")
    /\ (pc \in {"start", "ready"}) = (result = "none")
    /\ (app_mode = "Single Password Check") => password # << >>
    /\ Len(results) = Len(features_list)
    /\ (app_mode = "Batch Analysis") =>
          Len(results) = (IF pc = "predicted" THEN row - 1 ELSE row)


(***************************************************************************)
(* Vocabulary of the properties                                            *)
(***************************************************************************)
\* the four labels of the final return of predict_strength; "unknown" is
\* a key of strength_labels and is not one of them
Labels == {"very_weak", "weak", "medium", "strong"}

\* predict_strength has returned
Called == pc \in {"predicted", "done"}

\* a model and a scaler are loaded
Loaded == model # None /\ scaler # None

\* the composition of the strong override
Complex ==
    LET f == extract_features(password)
    IN  f.length >= 12 /\ f.digits >= 2 /\ f.special >= 1
        /\ f.upper >= 1 /\ f.lower >= 1

\* the password is on the exact list of the code
OnCodeList == lower(password) \in common_weak

(***************************************************************************)
(* C1: every call of predict_strength, whatever the password and whatever  *)
(* the artifact does (absent, predicting, raising), returns one of         *)
(* very_weak, weak, medium, strong, and never "unknown".                   *)
(* Fails: a raising scaler or model makes the call return "unknown".       *)
(***************************************************************************)
C1_Totality == Called => result \in Labels

(***************************************************************************)
(* C2: a password with length >= 12, digits >= 2, special >= 1,            *)
(* upper >= 1, lower >= 1 that the length and exact-list rules do not      *)
(* catch is strong whatever the loaded model predicts, and with no model.  *)
(* Fails: a recognised prediction is returned before RULE 3 is reached.    *)
(***************************************************************************)
C2_StrongOverride ==
    ( /\ Called
      /\ Complex
      /\ ~OnCodeList
      /\ (~Loaded \/ env.predict = "ok") )
    => result = "strong"

(***************************************************************************)
(* C3: when scaler.transform or model.predict raises, the call returns     *)
(* the label the rule-based branch gives that password with no artifact.   *)
(* Fails: the call returns "unknown".                                      *)
(***************************************************************************)
C3_ErrorFallsBack ==
    (Called /\ (env.transform = "raise" \/ env.predict = "raise"))
    => result = predict_strength(password, None, None, NoEnv).label

(***************************************************************************)
(* C4: a password shorter than 6 (the empty one included) is very_weak     *)
(* with or without a model, and neither the scaler nor the model is        *)
(* invoked in that call.                                                   *)
(***************************************************************************)
C4_ShortIsVeryWeak ==
    (Called /\ Len(password) < 6)
    => (result = "very_weak" /\ scalerCalls = 0 /\ modelCalls = 0)

\* "ab1" was classified with a model and a scaler loaded
C4_Witness ==
    /\ Called
    /\ Loaded
    /\ password = <<97, 98, 49>>
    /\ result = "very_weak"

(***************************************************************************)
(* C5 as stated: each of password, 12345, qwerty, abc123, admin, welcome,  *)
(* letmein, in any letter case, is very_weak or weak with or without a     *)
(* model and whatever the model predicts.                                  *)
(* Fails: welcome and letmein are not on the list of the code, so a loaded *)
(* model decides them.                                                     *)
(***************************************************************************)
C5_SpecDenylist ==
    ( /\ Called
      /\ lower(password) \in
            { <<112, 97, 115, 115, 119, 111, 114, 100>>,
              <<49, 50, 51, 52, 53>>,
              <<113, 119, 101, 114, 116, 121>>,
              <<97, 98, 99, 49, 50, 51>>,
              <<97, 100, 109, 105, 110>>,
              <<119, 101, 108, 99, 111, 109, 101>>,
              <<108, 101, 116, 109, 101, 105, 110>> }
      /\ (~Loaded \/ env.predict = "ok") )
    => result \in {"very_weak", "weak"}

(***************************************************************************)
(* C5 amended: each of password, 12345, qwerty, abc123, admin, in any      *)
(* letter case, is very_weak or weak with or without a model and whatever  *)
(* the model predicts or raises.  welcome and letmein, in any letter case, *)
(* are not on the list of the code: with no model they are weak, and with  *)
(* a loaded model that predicts they get the label of the prediction       *)
(* (strong for strong or good, medium for medium or moderate, very_weak    *)
(* for very_weak or very weak, weak for anything else).                    *)
(***************************************************************************)
C5_CodeDenylist ==
    /\ ( /\ Called
         /\ lower(password) \in
               { <<112, 97, 115, 115, 119, 111, 114, 100>>,
                 <<49, 50, 51, 52, 53>>,
                 <<113, 119, 101, 114, 116, 121>>,
                 <<97, 98, 99, 49, 50, 51>>,
                 <<97, 100, 109, 105, 110>> } )
       => result \in {"very_weak", "weak"}
    /\ ( /\ Called
         /\ lower(password) \in
               { <<119, 101, 108, 99, 111, 109, 101>>,
                 <<108, 101, 116, 109, 101, 105, 110>> } )
       => /\ ~Loaded => result = "weak"
          /\ (Loaded /\ env.predict = "ok") =>
               LET text == IF env.raw.kind = "str"
                           THEN lower(env.raw.text) ELSE << >>
               IN  result =
                     IF text \in { <<115, 116, 114, 111, 110, 103>>,
                                   <<103, 111, 111, 100>> }
                     THEN "strong"
                     ELSE IF text \in { <<109, 101, 100, 105, 117, 109>>,
                                        <<109, 111, 100, 101, 114, 97, 116, 101>> }
                     THEN "medium"
                     ELSE IF text \in { <<118, 101, 114, 121, 95, 119, 101, 97, 107>>,
                                        <<118, 101, 114, 121, 32, 119, 101, 97, 107>> }
                     THEN "very_weak"
                     ELSE "weak"

\* "AbC123" was classified with a model and a scaler loaded, and no
\* collaborator was invoked
C5_Witness ==
    /\ Called
    /\ Loaded
    /\ password = <<65, 98, 67, 49, 50, 51>>
    /\ result = "very_weak"
    /\ scalerCalls = 0

(***************************************************************************)
(* C6: extract_features gives upper + lower + digits + special = length    *)
(* for every password, over every character class.                         *)
(* Fails: a letter with no case, a titlecase letter or a non-digit numeric *)
(* is in none of the four counts, and a circled capital is in two.         *)
(***************************************************************************)
C6_CountsSumToLength ==
    pc = "done"
    => features.upper + features.lower + features.digits + features.special
       = features.length


\* the precondition of C7: no artifact, and none of the length, exact-list
\* and strong rules decides
LadderCase ==
    /\ Called
    /\ ~Loaded
    /\ Len(password) >= 6
    /\ ~OnCodeList
    /\ ~Complex

(***************************************************************************)
(* C7 as stated: with no artifact, a password the length, exact-list and   *)
(* strong rules do not decide gets very_weak if length <= 4 or denylisted  *)
(* or common_pattern; else weak if length <= 6 or digits, upper or special *)
(* is zero; else strong if (length >= 12, digits >= 2, special >= 2,       *)
(* upper >= 2, lower >= 3) or (length >= 10, digits >= 1, special >= 1,    *)
(* upper >= 1, lower >= 4); else weak.                                     *)
(* Fails: the code has its own ladder, which gives medium and does not     *)
(* read common_pattern.                                                    *)
(***************************************************************************)
C7_SpecLadder ==
    LadderCase =>
        LET f == extract_features(password)
        IN  result =
              IF f.length <= 4 \/ f.common_pattern = 1
                 \/ lower(password) \in
                      { <<97, 100, 109, 105, 110>>,
                        <<119, 101, 108, 99, 111, 109, 101>>,
                        <<108, 101, 116, 109, 101, 105, 110>> }
              THEN "very_weak"
              ELSE IF f.length <= 6 \/ f.digits = 0 \/ f.upper = 0 \/ f.special = 0
              THEN "weak"
              ELSE IF \/ ( f.length >= 12 /\ f.digits >= 2 /\ f.special >= 2
                           /\ f.upper >= 2 /\ f.lower >= 3 )
                      \/ ( f.length >= 10 /\ f.digits >= 1 /\ f.special >= 1
                           /\ f.upper >= 1 /\ f.lower >= 4 )
              THEN "strong"
              ELSE "weak"

(***************************************************************************)
(* C7 amended: with no artifact, a password the length, exact-list and     *)
(* strong rules do not decide gets medium if length >= 8 and digits >= 1   *)
(* and (upper >= 1 or special >= 1), and weak otherwise.                   *)
(***************************************************************************)
C7_CodeLadder ==
    LadderCase =>
        LET f == extract_features(password)
        IN  result =
              IF f.length >= 8 /\ f.digits >= 1
                 /\ (f.upper >= 1 \/ f.special >= 1)
              THEN "medium"
              ELSE "weak"

\* "welcomeQ7" (no special character) was classified with no artifact
C7_Witness ==
    /\ LadderCase
    /\ password = <<119, 101, 108, 99, 111, 109, 101, 81, 55>>
    /\ result = "medium"

(***************************************************************************)
(* C8: when the model file or the scaler file fails to load, load_model    *)
(* leaves model and scaler both None, and every later predict_strength     *)
(* call returns a defined label without invoking a model or a scaler.      *)
(***************************************************************************)
C8_LoadFailureDegrades ==
    (pc # "start" /\ (modelFile # "ok" \/ scalerFile # "ok"))
    => /\ model = None
       /\ scaler = None
       /\ notice \in {"warning", "error"}
       /\ Called => ( /\ result \in Labels
                      /\ scalerCalls = 0
                      /\ modelCalls = 0 )

\* the scaler failed after the model loaded, and a password that no early
\* rule decides was then classified
C8_Witness ==
    /\ Called
    /\ modelFile = "ok"
    /\ scalerFile = "corrupt"
    /\ password = <<119, 101, 108, 99, 111, 109, 101, 81, 55>>
    /\ result = "medium"

(***************************************************************************)
(* C9: each of the four ratios is its count over max(1, length), lies in   *)
(* [0, 1], and is 0 for the empty password.                                *)
(***************************************************************************)
C9_RatioBounds ==
    pc = "done" =>
        LET n == features.length
            d == IF n >= 1 THEN n ELSE 1
            InUnit(r, count) ==
                /\ r.num = count
                /\ r.den = d
                /\ 0 <= r.num
                /\ r.num <= r.den
                /\ (n = 0 => r.num = 0)
        IN  /\ n = Len(password)
            /\ InUnit(features.digit_ratio, features.digits)
            /\ InUnit(features.special_ratio, features.special)
            /\ InUnit(features.upper_ratio, features.upper)
            /\ InUnit(features.lower_ratio, features.lower)

\* the features of the empty password (a blank row of a batch) were
\* extracted
C9_Witness ==
    /\ pc = "done"
    /\ app_mode = "Batch Analysis"
    /\ password = << >>
    /\ features.length = 0
    /\ features.digit_ratio.den = 1

(***************************************************************************)
(* C10: when the model is consulted and predicts, for a password that does *)
(* not meet the strong composition, the prediction is matched without      *)
(* regard to case against the labels and the synonyms very weak, moderate  *)
(* and good, and every other raw value gives weak.                         *)
(***************************************************************************)
C10_Normalized ==
    (Called /\ env.predict = "ok" /\ ~Complex) =>
        LET raw == env.raw
            text == IF raw.kind = "str" THEN lower(raw.text) ELSE << >>
        IN  /\ result \in Labels
            /\ result =
                 CASE raw.kind # "str" -> "weak"
                   [] text \in { <<118, 101, 114, 121, 95, 119, 101, 97, 107>>,
                                 <<118, 101, 114, 121, 32, 119, 101, 97, 107>> }
                        -> "very_weak"
                   [] text = <<119, 101, 97, 107>> -> "weak"
                   [] text \in { <<109, 101, 100, 105, 117, 109>>,
                                 <<109, 111, 100, 101, 114, 97, 116, 101>> }
                        -> "medium"
                   [] text \in { <<115, 116, 114, 111, 110, 103>>,
                                 <<103, 111, 111, 100>> }
                        -> "strong"
                   [] OTHER -> "weak"

\* the model returned the class index 1 and the call returned weak
C10_Witness ==
    /\ Called
    /\ env.predict = "ok"
    /\ ~Complex
    /\ env.raw = IntPred(1)
    /\ result = "weak"

====
